---- MODULE Spec2Model ----
(***************************************************************************)
(* Multi-probe consistent hash ring (mpchash).                             *)
(*                                                                         *)
(* The ring is an ordered map from ring positions to nodes.  Nodes are     *)
(* placed by the partitioner (add), or at an explicit position (insert),   *)
(* and removed by their partitioner position (remove).  Lookups, ring      *)
(* traversals and ownership ranges are pure functions of the map.          *)
(*                                                                         *)
(* Ring positions are u64 in the program; here the ring is scaled down to  *)
(* the positions 0..MaxPos, MaxPos standing for RingPosition::MAX.         *)
(* The hash function is external: the partitioner is an arbitrary but      *)
(* fixed table from nodes to positions, and a key is the pair of seeded    *)
(* hash values the partitioner derives from it.                            *)
(***************************************************************************)
EXTENDS Integers, Sequences, FiniteSets

\* RingPosition::MAX, scaled down from u64::MAX.
MaxPos == 3

\* Number of distinct node values.
NumNodes == 2

\* DEFAULT_PROBE_COUNT
ProbeCount == 23

Pos == 0 .. MaxPos

Nodes == 1 .. NumNodes

\* Option<T>: None is the empty sequence, Some(v) the one-element sequence.
None == << >>

Some(v) == << v >>

\* A hashable key, as the partitioner sees it: its hash h1 under DEFAULT_SEED1
\* and its hash h2 under DEFAULT_SEED2.
Keys == [h1 : Pos, h2 : Pos]

VARIABLES
    positions,    \* HashRing::positions: ring position -> node
    partitioner,  \* HashRing::partitioner: node -> ring position
    last,         \* the last mutation: operation, node and position
    before,       \* positions before the last mutation
    lookup,       \* the key whose owner is looked up
    rng,          \* KeyRange operands, the operation applied and its result
    query         \* a key_range call in progress beside the mutations

vars == << positions, partitioner, last, before, lookup, rng, query >>

EmptyMap == [p \in {} |-> 0]

----------------------------------------------------------------------------
(* The ordered map (crossbeam_skiplist::SkipMap).                          *)

\* An insert that keeps the entry already stored under the key.
MapInsertKeepFirst(m, pos, node) ==
    [p \in (DOMAIN m) \cup {pos} |-> IF p \in DOMAIN m THEN m[p] ELSE node]

\* SkipMap::insert: an existing entry with the key is replaced.
MapInsert(m, pos, node) ==
    [p \in (DOMAIN m) \cup {pos} |-> IF p = pos THEN node ELSE m[p]]

\* SkipMap::remove
MapRemove(m, pos) == [p \in (DOMAIN m) \ {pos} |-> m[p]]

\* RingToken: a position of the map with its node.
Token(m, p) == [position |-> p, node |-> m[p]]

\* The positions 0, 1, .., MaxPos in ascending order.
AllPos == [i \in 1 .. MaxPos + 1 |-> i - 1]

InRange(m, lo, hi, p) == p \in DOMAIN m /\ lo <= p /\ p <= hi

\* SkipMap::range(lo..=hi): the entries with lo <= position <= hi, ascending.
Range(m, lo, hi) ==
    LET keys == SelectSeq(AllPos, LAMBDA p : InRange(m, lo, hi, p))
    IN  [i \in 1 .. Len(keys) |-> Token(m, keys[i])]

\* Iterator::rev
Rev(s) == [i \in 1 .. Len(s) |-> s[Len(s) + 1 - i]]

----------------------------------------------------------------------------
(* Partitioner.                                                            *)

\* A position that depends on the size of the ring as well as on the node.
NodePositionSalted(node) ==
    (partitioner[node] + Cardinality(DOMAIN positions)) % (MaxPos + 1)

\* Partitioner::position on a node.
NodePosition(node) == partitioner[node]

\* Partitioner::position on a key: the hash under DEFAULT_SEED1.
KeyPosition(key) == key.h1

\* Partitioner::positions: the double-hashing probe sequence h1 + i*h2.
Probes(key, k) == [i \in 1 .. k |-> (key.h1 + (i - 1) * key.h2) % (MaxPos + 1)]

----------------------------------------------------------------------------
(* HashRing queries.                                                       *)

\* A clockwise walk whose first leg leaves out the start position.
TokensCWAfterStart(m, start) == Range(m, start + 1, MaxPos) \o Range(m, 0, start)

\* HashRing::tokens(start, Clockwise)
TokensCW(m, start) == Range(m, start, MaxPos) \o Range(m, 0, start - 1)

\* A counter-clockwise walk whose second leg does not exclude the start position.
TokensCCWWithStart(m, start) == Rev(Range(m, 0, start)) \o Rev(Range(m, start, MaxPos))

\* HashRing::tokens(start, CounterClockwise)
TokensCCW(m, start) == Rev(Range(m, 0, start)) \o Rev(Range(m, start + 1, MaxPos))

\* Iterator::next
NextOf(s) == IF Len(s) = 0 THEN None ELSE Some(s[1])

\* A far end that answers with the near end.
NextBackFromFront(s) == IF Len(s) = 0 THEN None ELSE Some(s[1])

\* DoubleEndedIterator::next_back
NextBack(s) == IF Len(s) = 0 THEN None ELSE Some(s[Len(s)])

\* A take that lets one element too many through.
TakeOneMore(s, k) == SubSeq(s, 1, IF k + 1 < Len(s) THEN k + 1 ELSE Len(s))

\* Iterator::take(k).collect()
Take(s, k) == SubSeq(s, 1, IF k < Len(s) THEN k ELSE Len(s))

\* A distance that does not wrap around the ring.
DistanceNoWrap(pos1, pos2) ==
    IF pos1 > pos2 THEN pos1 - pos2 ELSE pos2 - pos1

\* distance(pos1, pos2)
Distance(pos1, pos2) ==
    IF pos1 > pos2 THEN MaxPos - pos1 + pos2 ELSE pos2 - pos1

\* The probe loop of HashRing::primary_token, from probe i on.
RECURSIVE ProbeLoop(_, _, _, _, _)
ProbeLoop(m, probes, i, min_distance, min_token) ==
    IF i > Len(probes)
    THEN min_token
    ELSE LET first == NextOf(TokensCW(m, probes[i]))
         IN  IF first = None
             THEN None
             ELSE LET d == Distance(probes[i], first[1].position)
                  IN  IF d < min_distance
                      THEN ProbeLoop(m, probes, i + 1, d, first)
                      ELSE ProbeLoop(m, probes, i + 1, min_distance, min_token)

\* Placement by index: the key's position modulo the number of entries.
PrimaryTokenModulo(m, key) ==
    IF m = EmptyMap
    THEN None
    ELSE Some(TokensCW(m, 0)[(KeyPosition(key) % Len(TokensCW(m, 0))) + 1])

\* HashRing::primary_token / HashRing::node
PrimaryToken(m, key) == ProbeLoop(m, Probes(key, ProbeCount), 1, MaxPos, None)

\* HashRing::replicas
Replicas(m, key, k) == Take(TokensCW(m, KeyPosition(key)), k)

\* KeyRange::new
KeyRange(start, end) == [start |-> start, end |-> end]

\* A key range with its two ends exchanged.
KeyRangeAtSwapped(m, pos) ==
    IF DOMAIN m = {}
    THEN None
    ELSE LET prev_pos == NextBack(TokensCW(m, pos))
             start == IF prev_pos = None THEN 0 ELSE prev_pos[1].position
         IN  Some(KeyRange(pos, start))

\* A key range whose predecessor is looked for below pos only, 0 when there
\* is none.
KeyRangeAtNoWrap(m, pos) ==
    IF DOMAIN m = {}
    THEN None
    ELSE LET prev_pos == NextBack(Range(m, 0, pos - 1))
             start == IF prev_pos = None THEN 0 ELSE prev_pos[1].position
         IN  Some(KeyRange(start, pos))

\* HashRing::key_range
KeyRangeAt(m, pos) ==
    IF DOMAIN m = {}
    THEN None
    ELSE LET prev_pos == NextBack(TokensCW(m, pos))
             start == IF prev_pos = None THEN 0 ELSE prev_pos[1].position
         IN  Some(KeyRange(start, pos))

\* HashRing::intervals
Intervals(m, node) ==
    LET range == KeyRangeAt(m, NodePosition(node))
    IN  IF range = None THEN None ELSE Some(<< range[1] >>)

\* HashRing::len
RingLen(m) == Cardinality(DOMAIN m)

\* Every KeyRange<RingPosition>.
Ranges == [start : Pos, end : Pos]

\* An inversion test that leaves out start = end.
IsInvertedStrict(r) == r.start > r.end

\* KeyRange::is_inverted
IsInverted(r) == r.start >= r.end

\* KeyRange::covers_whole_ring
CoversWholeRing(r) == r.start = r.end

\* KeyRange::contains
Contains(r, item) ==
    IF IsInverted(r)
    THEN item >= r.start \/ item < r.end
    ELSE item >= r.start /\ item < r.end

\* An overlap test that looks at the other range's start only.
IsOverlappingOneWay(r, other) == Contains(r, other.start)

\* KeyRange::is_overlapping
IsOverlapping(r, other) == Contains(r, other.start) \/ Contains(other, r.start)

\* KeyRange::is_continuous
IsContinuous(r, other) ==
    IF CoversWholeRing(r) \/ CoversWholeRing(other)
    THEN FALSE
    ELSE r.end = other.start \/ other.end = r.start

\* Ord::min
Min(x, y) == IF x <= y THEN x ELSE y

\* Ord::max
Max(x, y) == IF x >= y THEN x ELSE y

\* The start and end that KeyRange::merged computes, packed into its result.
MergedOf(start, end) ==
    IF start = end THEN Some(KeyRange(0, 0)) ELSE Some(KeyRange(start, end))

\* A merge that takes self for the inverted range without looking.
MergedUnordered(r, other) ==
    IF CoversWholeRing(r) \/ CoversWholeRing(other)
    THEN Some(KeyRange(0, 0))
    ELSE IF IsOverlapping(r, other) \/ IsContinuous(r, other)
    THEN LET both_inverted == IsInverted(r) /\ IsInverted(other)
             both_non_inverted == ~(IsInverted(r) \/ IsInverted(other))
         IN  IF both_inverted \/ both_non_inverted
             THEN MergedOf(Min(r.start, other.start), Max(r.end, other.end))
             ELSE IF r.start <= other.end
                  THEN MergedOf(Min(r.start, other.start), r.end)
                  ELSE MergedOf(r.start, Max(r.end, other.end))
    ELSE None

\* KeyRange::merged
Merged(r, other) ==
    IF CoversWholeRing(r) \/ CoversWholeRing(other)
    THEN Some(KeyRange(0, 0))
    ELSE IF IsOverlapping(r, other) \/ IsContinuous(r, other)
    THEN LET both_inverted == IsInverted(r) /\ IsInverted(other)
             both_non_inverted == ~(IsInverted(r) \/ IsInverted(other))
             a == IF IsInverted(r) THEN r ELSE other
             b == IF IsInverted(r) THEN other ELSE r
         IN  IF both_inverted \/ both_non_inverted
             THEN MergedOf(Min(r.start, other.start), Max(r.end, other.end))
             ELSE IF a.start <= b.end
                  THEN MergedOf(Min(a.start, b.start), a.end)
                  ELSE MergedOf(a.start, Max(a.end, b.end))
    ELSE None

\* KeyRange::size
Size(r) ==
    IF IsInverted(r)
    THEN MaxPos - (r.start - r.end)
    ELSE r.end - r.start

----------------------------------------------------------------------------
(* HashRing mutations.                                                     *)

\* No key is looked up.
NoKey == [h1 |-> 0, h2 |-> 0]

\* No range operation is applied.
NoRange ==
    [a |-> KeyRange(0, 0), b |-> KeyRange(0, 0), x |-> 0, op |-> "new", out |-> None]

\* No key_range call is in progress.
NoQuery == [pc |-> "idle", pos |-> 0, res |-> None, seen |-> {}]

\* HashRing::new
EmptyRing ==
    /\ positions = EmptyMap
    /\ last = [op |-> "new", node |-> 0, pos |-> 0]
    /\ before = EmptyMap

Init ==
    /\ EmptyRing
    /\ partitioner \in [Nodes -> Pos]
    /\ lookup = NoKey
    /\ rng = NoRange
    /\ query = NoQuery

\* Mutations that may run while one key_range call is in progress.
MaxRace == 1

\* The rings a key_range call in progress has run beside.
Observe(q, m) == IF q.pc \in {"idle", "done"} THEN q ELSE [q EXCEPT !.seen = @ \cup {m}]

\* A mutation runs before a key_range call, or beside it while the call has
\* seen no more than MaxRace rings.
MayMutate ==
    IF query.pc = "idle"
    THEN TRUE
    ELSE query.pc # "done" /\ Cardinality(query.seen) <= MaxRace

\* HashRing::insert
Insert(pos, node) ==
    /\ MayMutate
    /\ positions' = MapInsert(positions, pos, node)
    /\ last' = [op |-> "insert", node |-> node, pos |-> pos]
    /\ before' = positions
    /\ query' = Observe(query, positions')
    /\ UNCHANGED << partitioner, lookup, rng >>

\* HashRing::add
Add(node) ==
    /\ MayMutate
    /\ positions' = MapInsert(positions, NodePosition(node), node)
    /\ last' = [op |-> "add", node |-> node, pos |-> NodePosition(node)]
    /\ before' = positions
    /\ query' = Observe(query, positions')
    /\ UNCHANGED << partitioner, lookup, rng >>

\* A remove that searches the ring for the node instead of hashing it.
RemoveByValue(node) ==
    /\ MayMutate
    /\ positions' = [p \in {q \in DOMAIN positions : positions[q] # node}
                        |-> positions[p]]
    /\ last' = [op |-> "remove", node |-> node, pos |-> NodePosition(node)]
    /\ before' = positions
    /\ query' = Observe(query, positions')
    /\ UNCHANGED << partitioner, lookup, rng >>

\* HashRing::remove
Remove(node) ==
    /\ MayMutate
    /\ positions' = MapRemove(positions, NodePosition(node))
    /\ last' = [op |-> "remove", node |-> node, pos |-> NodePosition(node)]
    /\ before' = positions
    /\ query' = Observe(query, positions')
    /\ UNCHANGED << partitioner, lookup, rng >>

Next ==
    \/ \E pos \in Pos, node \in Nodes : Insert(pos, node)
    \/ \E node \in Nodes : Add(node)
    \/ \E node \in Nodes : Remove(node)

Spec == Init /\ [][Next]_vars

----------------------------------------------------------------------------
(* A ring whose nodes join by add and leave by remove, and one key.        *)

\* Number of distinct node values that join and leave.
NumJoiners == 3

Joiners == 1 .. NumJoiners

InitLookup ==
    /\ EmptyRing
    /\ partitioner \in [Joiners -> Pos]
    /\ lookup \in Keys
    /\ rng = NoRange
    /\ query = NoQuery

NextLookup ==
    \/ \E node \in Joiners : Add(node)
    \/ \E node \in Joiners : Remove(node)

SpecLookup == InitLookup /\ [][NextLookup]_vars

----------------------------------------------------------------------------
(* One key_range call running beside insert, add and remove.  Each read of *)
(* the position map is one step: is_empty, then the far end of the second  *)
(* half of the chain, then the far end of its first half.                  *)

\* The last stored position within lo..hi, if any.
LastIn(m, lo, hi) ==
    LET ps == {p \in DOMAIN m : lo <= p /\ p <= hi}
    IN  IF ps = {} THEN None
        ELSE Some(CHOOSE p \in ps : \A q \in ps : q <= p)

\* key_range(pos) is called and reads is_empty.
KeyRangeStart(pos) ==
    /\ query.pc = "idle"
    /\ query' = IF positions = EmptyMap
                THEN [pc |-> "done", pos |-> pos, res |-> None, seen |-> {positions}]
                ELSE [pc |-> "back", pos |-> pos, res |-> None, seen |-> {positions}]
    /\ UNCHANGED << positions, partitioner, last, before, lookup, rng >>

\* next_back on the chain asks range(0..pos) first.
KeyRangeBack ==
    /\ query.pc = "back"
    /\ LET prev_pos == LastIn(positions, 0, query.pos - 1)
       IN  query' = IF prev_pos # None
                    THEN [query EXCEPT !.pc = "done",
                                       !.res = Some(KeyRange(prev_pos[1], query.pos))]
                    ELSE [query EXCEPT !.pc = "front"]
    /\ UNCHANGED << positions, partitioner, last, before, lookup, rng >>

\* next_back on the chain then asks range(pos..); map_or(0, ..) on its answer.
KeyRangeFront ==
    /\ query.pc = "front"
    /\ LET prev_pos == LastIn(positions, query.pos, MaxPos)
           start == IF prev_pos = None THEN 0 ELSE prev_pos[1]
       IN  query' = [query EXCEPT !.pc = "done",
                                  !.res = Some(KeyRange(start, query.pos))]
    /\ UNCHANGED << positions, partitioner, last, before, lookup, rng >>

\* The call returns; the next one may start.
KeyRangeReturn ==
    /\ query.pc = "done"
    /\ query' = NoQuery
    /\ UNCHANGED << positions, partitioner, last, before, lookup, rng >>

NextConc ==
    \/ \E pos \in Pos, node \in Nodes : Insert(pos, node)
    \/ \E node \in Nodes : Add(node)
    \/ \E node \in Nodes : Remove(node)
    \/ \E pos \in Pos : KeyRangeStart(pos)
    \/ KeyRangeBack
    \/ KeyRangeFront
    \/ KeyRangeReturn

SpecConc == Init /\ [][NextConc]_vars

----------------------------------------------------------------------------
(* KeyRange operations on every pair of ranges.                            *)

InitRange ==
    /\ EmptyRing
    /\ partitioner = [n \in Nodes |-> 0]
    /\ lookup = NoKey
    /\ query = NoQuery
    /\ \E a \in Ranges, b \in Ranges : rng = [NoRange EXCEPT !.a = a, !.b = b]

\* rng.a.merged(&rng.b)
MergedOp ==
    /\ rng' = [rng EXCEPT !.op = "merged", !.x = 0, !.out = Merged(rng.a, rng.b)]
    /\ UNCHANGED << positions, partitioner, last, before, lookup, query >>

\* rng.a.contains(&x)
ContainsOp(x) ==
    /\ rng' = [rng EXCEPT !.op = "contains", !.x = x,
                           !.out = Some(Contains(rng.a, x))]
    /\ UNCHANGED << positions, partitioner, last, before, lookup, query >>

\* rng.a.size()
SizeOp ==
    /\ rng' = [rng EXCEPT !.op = "size", !.x = 0, !.out = Some(Size(rng.a))]
    /\ UNCHANGED << positions, partitioner, last, before, lookup, query >>

NextRange ==
    \/ MergedOp
    \/ \E x \in Pos : ContainsOp(x)
    \/ SizeOp

SpecRange == InitRange /\ [][NextRange]_vars

TypeOK ==
    /\ DOMAIN positions \subseteq Pos
    /\ \A p \in DOMAIN positions : positions[p] \in Nodes
    /\ partitioner \in [Nodes -> Pos]

----------------------------------------------------------------------------
(* Properties.                                                             *)

\* Largest replica count asked for.
MaxK == 2

\* The node occupies some position of the ring.
InRing(m, node) == \E p \in DOMAIN m : m[p] = node

\* Position a comes before position b on a clockwise walk that starts at start.
CWBefore(start, a, b) ==
    \/ a >= start /\ b < start
    \/ (a >= start <=> b >= start) /\ a < b

\* Position a comes before position b on a counter-clockwise walk from start.
CCWBefore(start, a, b) ==
    \/ a <= start /\ b > start
    \/ (a <= start <=> b <= start) /\ a > b

\* Sequence s holds every entry of m exactly once.
EachEntryOnce(m, s) ==
    /\ Len(s) = Cardinality(DOMAIN m)
    /\ \A p \in DOMAIN m :
         Cardinality({i \in 1 .. Len(s) : s[i] = Token(m, p)}) = 1

\* C1: whenever replicas(key, k) is non-empty, its first token is the entry
\* that node(key) returns (stated for the keys to which node(key) gives an
\* owner, so that the two answers are compared entry against entry).
C1_ReplicasStartAtPrimary ==
    \A key \in Keys, k \in 1 .. MaxK :
        LET r == Replicas(positions, key, k)
            t == PrimaryToken(positions, key)
        IN  (r # << >> /\ t # None) => t[1] = r[1]

\* C2: on a non-empty ring node(key) is never absent and is an entry stored
\* in the ring.
C2_PrimaryIsStoredEntry ==
    \A key \in Keys :
        DOMAIN positions # {} =>
            LET t == PrimaryToken(positions, key)
            IN  /\ t # None
                /\ t[1].position \in DOMAIN positions
                /\ t[1].node = positions[t[1].position]

\* C3: tokens(start, Clockwise) yields every stored entry exactly once, the
\* entries at or after start in ascending order and then the entries before
\* start in ascending order.
C3_ClockwiseOrder ==
    \A start \in Pos :
        LET s == TokensCW(positions, start)
        IN  /\ EachEntryOnce(positions, s)
            /\ \A i, j \in 1 .. Len(s) :
                 i < j => CWBefore(start, s[i].position, s[j].position)

C3_Witness ==
    /\ {0, MaxPos} \subseteq DOMAIN positions
    /\ Cardinality(DOMAIN positions) >= 3
    /\ \E start \in Pos \ {0} :
         LET s == TokensCW(positions, start)
         IN  s[1].position >= start /\ s[Len(s)].position = 0

\* C4: tokens(start, CounterClockwise) yields every stored entry exactly once,
\* the entries at or before start in descending order and then the entries
\* after start in descending order; from an occupied start both directions
\* begin with the entry at start.
C4_CounterClockwiseOrder ==
    \A start \in Pos :
        LET s == TokensCCW(positions, start)
        IN  /\ EachEntryOnce(positions, s)
            /\ \A i, j \in 1 .. Len(s) :
                 i < j => CCWBefore(start, s[i].position, s[j].position)
            /\ start \in DOMAIN positions =>
                 /\ s[1] = Token(positions, start)
                 /\ TokensCW(positions, start)[1] = Token(positions, start)

C4_Witness ==
    /\ Cardinality(DOMAIN positions) >= 3
    /\ \E start \in DOMAIN positions :
         LET s == TokensCCW(positions, start)
         IN  /\ s[1].position = start
             /\ s[2].position < start
             /\ s[Len(s)].position > start

\* C5: key_range(pos) is absent exactly when the ring is empty, and a range
\* that is present ends at pos.
C5_KeyRangeEndsAtPos ==
    \A pos \in Pos :
        LET r == KeyRangeAt(positions, pos)
        IN  /\ r = None <=> DOMAIN positions = {}
            /\ r # None => r[1].end = pos

C5_Witness ==
    /\ last.op = "remove"
    /\ last.pos \in DOMAIN before
    /\ DOMAIN positions # {}
    /\ LET r == KeyRangeAt(positions, last.pos)
       IN  r # None /\ r[1].end = last.pos /\ r[1].start > last.pos

\* C6: on a ring with at least two stored positions, key_range(p) of a stored
\* position p contains x exactly when the lookup at x (the first entry
\* clockwise from x) answers with the entry at p.
C6_RangeMatchesLookup ==
    Cardinality(DOMAIN positions) >= 2 =>
        \A p \in DOMAIN positions, x \in Pos :
            Contains(KeyRangeAt(positions, p)[1], x)
                <=> NextOf(TokensCW(positions, x)) = Some(Token(positions, p))

\* C7: intervals(node) returns a result only for a node that is in the ring.
C7_IntervalsOnlyForPresent ==
    \A node \in Nodes :
        Intervals(positions, node) # None => InRing(positions, node)

\* C8 as claimed: remove(node) deletes exactly the entry of node and lowers
\* len() by one when node is in the ring, and leaves the ring unchanged when
\* node is absent.
C8_RemoveExactlyNode ==
    last.op = "remove" =>
        IF InRing(before, last.node)
        THEN /\ RingLen(positions) = RingLen(before) - 1
             /\ \E p \in DOMAIN before :
                  /\ before[p] = last.node
                  /\ DOMAIN positions = DOMAIN before \ {p}
                  /\ \A q \in DOMAIN positions : positions[q] = before[q]
        ELSE positions = before

\* C8 amended: remove(node) deletes exactly the entry stored at the hash
\* position of node, whichever node occupies it, and changes no other entry;
\* len() drops by one when that position was occupied and by zero otherwise.
C8_RemoveAtHashPosition ==
    last.op = "remove" =>
        LET p == partitioner[last.node]
        IN  /\ DOMAIN positions = DOMAIN before \ {p}
            /\ \A q \in DOMAIN positions : positions[q] = before[q]
            /\ RingLen(positions) =
                 RingLen(before) - (IF p \in DOMAIN before THEN 1 ELSE 0)

C8_Witness ==
    /\ last.op = "remove"
    /\ partitioner[last.node] \in DOMAIN before
    /\ before[partitioner[last.node]] # last.node
    /\ InRing(positions, last.node)

\* C9: add(node) on a ring that add(node) produced changes nothing: same
\* entries, same len(), same primary owner for every key.
C9_AddIdempotent ==
    ( /\ last.op = "add"
      /\ partitioner[last.node] \in DOMAIN before
      /\ before[partitioner[last.node]] = last.node )
    => /\ positions = before
       /\ RingLen(positions) = RingLen(before)
       /\ \A key \in Keys :
            PrimaryToken(positions, key) = PrimaryToken(before, key)

C9_Witness ==
    /\ last.op = "add"
    /\ partitioner[last.node] \in DOMAIN before
    /\ before[partitioner[last.node]] = last.node
    /\ RingLen(positions) >= 2

\* C10: an insert or add that lands on an occupied position keeps len(),
\* makes the new node the occupant of that position and changes no other
\* entry.
C10_LastWriteWins ==
    (last.op \in {"insert", "add"} /\ last.pos \in DOMAIN before) =>
        /\ RingLen(positions) = RingLen(before)
        /\ DOMAIN positions = DOMAIN before
        /\ positions[last.pos] = last.node
        /\ \A q \in DOMAIN positions \ {last.pos} : positions[q] = before[q]

C10_Witness ==
    /\ last.op = "insert"
    /\ last.pos \in DOMAIN before
    /\ before[last.pos] # last.node
    /\ RingLen(positions) >= 2

\* The positions of range r: [start, end) when start < end, and otherwise
\* [start, MaxPos] together with [0, end).
PositionsOf(r) ==
    IF r.start < r.end
    THEN {x \in Pos : r.start <= x /\ x < r.end}
    ELSE {x \in Pos : r.start <= x} \cup {x \in Pos : x < r.end}

\* C11: a range that merged(a, b) returns is the union of a and b: it
\* contains a position exactly when a or b does.
C11_MergedIsUnion ==
    (rng.op = "merged" /\ rng.out # None) =>
        \A x \in Pos :
            Contains(rng.out[1], x) <=> (Contains(rng.a, x) \/ Contains(rng.b, x))

\* C12: contains(x) is true exactly for the positions of [start, end) when
\* start < end and of [start, MAX] with [0, end) when start >= end; a range
\* with start = end contains every position.
C12_ContainsPositions ==
    rng.op = "contains" =>
        /\ rng.out = Some(rng.x \in PositionsOf(rng.a))
        /\ rng.a.start = rng.a.end => rng.out = Some(TRUE)

C12_Witness ==
    /\ rng.op = "contains"
    /\ rng.a.start > rng.a.end
    /\ rng.a.end > 0
    /\ rng.x < rng.a.end
    /\ rng.out = Some(TRUE)

\* C20: merged is commutative: a.merged(b) equals b.merged(a).
C20_MergedCommutes ==
    rng.op = "merged" => rng.out = Merged(rng.b, rng.a)

C20_Witness ==
    /\ rng.op = "merged"
    /\ IsInverted(rng.b) /\ ~IsInverted(rng.a)
    /\ rng.out # None
    /\ rng.out[1].start # rng.out[1].end

\* Position p lies strictly between a and b on the clockwise way from a to b.
StrictlyBetweenCW(a, p, b) ==
    IF a < b THEN a < p /\ p < b ELSE p > a \/ p < b

\* The keys told apart by their position alone, all that replicas reads of
\* a key.
KeysByPosition == {k \in Keys : k.h2 = 0}

\* C13: replicas(key, k) returns exactly min(k, len()) tokens, no stored
\* position twice, each the stored entry of its position and each the next
\* entry clockwise after the one before it.
C13_ReplicasAreConsecutive ==
    \A key \in KeysByPosition, k \in 0 .. MaxK :
        LET r == Replicas(positions, key, k)
        IN  /\ Len(r) = Min(k, RingLen(positions))
            /\ \A i \in 1 .. Len(r) :
                 /\ r[i].position \in DOMAIN positions
                 /\ r[i] = Token(positions, r[i].position)
            /\ \A i, j \in 1 .. Len(r) : i # j => r[i].position # r[j].position
            /\ \A i \in 1 .. Len(r) - 1 : \A p \in DOMAIN positions :
                 ~StrictlyBetweenCW(r[i].position, p, r[i + 1].position)

C13_Witness ==
    /\ RingLen(positions) > MaxK
    /\ \E key \in KeysByPosition :
         LET r == Replicas(positions, key, MaxK)
         IN  Len(r) = MaxK /\ r[1].position > r[MaxK].position

\* The entry of node where add puts it.
AddedToken(node) == [position |-> partitioner[node], node |-> node]

\* C14: after add(X) the primary owner of a key is the entry it was before
\* the add, or the entry of X.
C14_JoinMovesKeysToNewNodeOnly ==
    last.op = "add" =>
        LET owner == PrimaryToken(positions, lookup)
        IN  \/ owner = PrimaryToken(before, lookup)
            \/ owner = Some(AddedToken(last.node))

C14_Witness ==
    /\ last.op = "add"
    /\ RingLen(before) >= 2
    /\ partitioner[last.node] \notin DOMAIN before
    /\ PrimaryToken(before, lookup) # None
    /\ PrimaryToken(positions, lookup) = Some(AddedToken(last.node))

\* C16: when the ring holds X where add put it and the primary owner of a key
\* is another entry, that entry is still the primary owner after remove(X).
C16_LeaveMovesKeysOfLeaverOnly ==
    ( /\ last.op = "remove"
      /\ partitioner[last.node] \in DOMAIN before
      /\ before[partitioner[last.node]] = last.node
      /\ PrimaryToken(before, lookup) # None
      /\ PrimaryToken(before, lookup) # Some(AddedToken(last.node)) )
    => PrimaryToken(positions, lookup) = PrimaryToken(before, lookup)

C16_Witness ==
    /\ last.op = "remove"
    /\ partitioner[last.node] \in DOMAIN before
    /\ before[partitioner[last.node]] = last.node
    /\ PrimaryToken(before, lookup) # None
    /\ PrimaryToken(before, lookup) # Some(AddedToken(last.node))
    /\ RingLen(positions) >= 2
    /\ PrimaryToken(positions, lookup) = PrimaryToken(before, lookup)


\* C15: the result of a key_range call that ran beside mutations is the result
\* of key_range on one of the rings that existed between its start and its end.
C15_QueryMatchesSomeSnapshot ==
    query.pc = "done" =>
        \E m \in query.seen : query.res = KeyRangeAt(m, query.pos)

\* C17 as stated: on a ring whose only stored position is pos, key_range(pos)
\* is the range with start 0 and end pos.
C17_SingleEntryStartsAtZero ==
    \A pos \in Pos :
        DOMAIN positions = {pos} =>
            KeyRangeAt(positions, pos) = Some(KeyRange(0, pos))

\* C17 amended: on a ring whose only stored position is pos, key_range(pos) is
\* the range with start pos and end pos, which covers the whole ring.
C17_SingleEntryWholeRing ==
    \A pos \in Pos :
        DOMAIN positions = {pos} =>
            /\ KeyRangeAt(positions, pos) = Some(KeyRange(pos, pos))
            /\ CoversWholeRing(KeyRange(pos, pos))

C17_Witness ==
    /\ last.op \in {"insert", "add"}
    /\ last.pos > 0
    /\ DOMAIN positions = {last.pos}
    /\ KeyRangeAt(positions, last.pos) = Some(KeyRange(last.pos, last.pos))

\* C18: on a ring with a stored position other than pos, key_range(pos) starts
\* at the largest stored position below pos, or, when there is none, at the
\* largest stored position above pos.
C18_StartIsNearestCounterClockwise ==
    \A pos \in Pos :
        LET below == {p \in DOMAIN positions : p < pos}
            above == {p \in DOMAIN positions : p > pos}
            r == KeyRangeAt(positions, pos)
        IN  below \cup above # {} =>
                /\ r # None
                /\ r[1].start \in below \cup above
                /\ \A p \in (IF below # {} THEN below ELSE above) : p <= r[1].start
                /\ below # {} => r[1].start \in below

C18_Witness ==
    /\ last.op \in {"insert", "add", "remove"}
    /\ \E pos \in Pos :
         LET above == {p \in DOMAIN positions : p > pos}
         IN  /\ \A p \in DOMAIN positions : p >= pos
             /\ Cardinality(above) >= 2
             /\ KeyRangeAt(positions, pos)[1].start \in above
             /\ \A p \in above : p <= KeyRangeAt(positions, pos)[1].start

\* C19: on a non-empty ring node(key) is the entry first clockwise from the
\* probe whose distance to that entry is smallest, the earliest such probe
\* when several are equally near.
C19_NodeIsOwnerOfNearestProbe ==
    positions # EmptyMap =>
        LET probes == Probes(lookup, ProbeCount)
            owner(i) == TokensCW(positions, probes[i])[1]
            dist(i) == Distance(probes[i], owner(i).position)
            best == CHOOSE i \in 1 .. ProbeCount :
                        \A j \in 1 .. ProbeCount :
                            dist(i) < dist(j) \/ (dist(i) = dist(j) /\ i <= j)
        IN  PrimaryToken(positions, lookup) = Some(owner(best))

\* C21: merged(a, b) is absent exactly when neither range covers the whole
\* ring, no position lies in both, and neither range ends where the other
\* starts; when a or b covers the whole ring the result is [0, 0).
C21_MergedAbsentWhenApart ==
    rng.op = "merged" =>
        LET whole == CoversWholeRing(rng.a) \/ CoversWholeRing(rng.b)
            apart == /\ ~whole
                     /\ PositionsOf(rng.a) \cap PositionsOf(rng.b) = {}
                     /\ rng.a.end # rng.b.start
                     /\ rng.b.end # rng.a.start
        IN  /\ rng.out = None <=> apart
            /\ whole => rng.out = Some(KeyRange(0, 0))

C21_Witness ==
    /\ rng.op = "merged"
    /\ rng.out = None
    /\ rng.a.start # rng.a.end /\ rng.b.start # rng.b.end
    /\ IsInverted(rng.a) \/ IsInverted(rng.b)

\* C22: size() of a range with start # end is the number of positions the
\* range contains.
C22_SizeCountsPositions ==
    (rng.op = "size" /\ ~CoversWholeRing(rng.a)) =>
        rng.out = Some(Cardinality({x \in Pos : Contains(rng.a, x)}))

====
